---- MODULE Spec2Model ----
(***************************************************************************)
(* Model of backend-app/scripts/analyze-security-reports.py:               *)
(* SecurityReportAnalyzer (finding normalisation from the two ZAP report   *)
(* encodings, the risk summary, the recommendation engine, the executive   *)
(* summary and the run driven by analyze_all_reports / main).              *)
(*                                                                         *)
(* A finding keeps the fields the properties below read: name, risk,       *)
(* instances and urls.  The remaining fields of a finding (id, confidence, *)
(* description, solution, reference, cwe_id, wasc_id, source) are copied   *)
(* through by the code and take part in no decision.                       *)
(***************************************************************************)
EXTENDS Integers, Sequences, FiniteSets, TLC

VARIABLES
    pc,               \* position of the run inside main / analyze_all_reports
    dirExists,        \* os.path.exists(self.reports_dir)
    args_output,      \* args.output as parsed by main
    filesSeen,        \* entries of os.listdir already iterated
    findings,         \* self.findings
    risk_summary,     \* self.risk_summary
    recommendations,  \* self.recommendations
    docs,             \* every successful open(output_file, 'w'), in order
    fileStart,        \* findings / risk_summary when the current report was started
    lastReturn,       \* how the last analyze_zap_*_report call returned
    genCalls,         \* calls of generate_recommendations so far
    encoding,         \* parser harness: which of the two parse functions
    alertIn,          \* parser harness: the alert handed to it
    parsed            \* parser harness: what the parse function returned

vars == <<pc, dirExists, args_output, filesSeen, findings, risk_summary,
          recommendations, docs, fileStart, lastReturn, genCalls,
          encoding, alertIn, parsed>>

runVars == <<pc, dirExists, args_output, filesSeen, findings, risk_summary,
             recommendations, docs, fileStart, lastReturn, genCalls>>

parseVars == <<encoding, alertIn, parsed>>

----------------------------------------------------------------------------
(* Bounds *)

MaxFiles == 2        \* directory entries iterated in one run

MaxFindings == 3     \* alerts ingested in one run

MaxInst == 2         \* instance entries of one alert (parser harness)

MaxGenCalls == 2     \* calls of generate_recommendations on one analyzer

----------------------------------------------------------------------------
(* Strings that the code splits are sequences of characters. *)

cSp == <<" ">>

cHigh == <<"H", "i", "g", "h">>

cMedium == <<"M", "e", "d", "i", "u", "m">>

cLow == <<"L", "o", "w">>

cInformational == <<"I", "n", "f", "o", "r", "m", "a", "t", "i", "o", "n", "a", "l">>

cCritical == <<"C", "r", "i", "t", "i", "c", "a", "l">>

cUnknown == <<"U", "n", "k", "n", "o", "w", "n">>

cParen == <<"(", "M", ")">>

\* riskdesc strings met inside a run
RunRiskDescs ==
    { cHigh \o cSp \o cParen,
      cMedium \o cSp \o cParen,
      cLow \o cSp \o cParen,
      cCritical \o cSp \o cParen }

\* riskdesc strings handed to the parser harness
RiskDescs ==
    RunRiskDescs \cup
    { cInformational \o cSp \o cParen,
      cHigh,
      cSp \o cHigh,
      cHigh \o cParen,
      cHigh \o cSp \o cSp,
      <<"h", "i", "g", "h">> \o cSp \o cParen,
      cUnknown,
      <<>> }

Names == {"XSS", "CSP"}

Uris == {"http://a", "http://b"}

\* instances[] entries: a dict with or without 'uri' / an <instance> with or
\* without a <uri> child
Instances == [has_uri : {TRUE}, uri : Uris] \cup [has_uri : {FALSE}, uri : {""}]

RECURSIVE SeqsUpTo(_, _)
SeqsUpTo(S, n) ==
    IF n = 0 THEN {<<>>}
    ELSE LET shorter == SeqsUpTo(S, n - 1)
         IN  shorter \cup {Append(s, x) : s \in {t \in shorter : Len(t) = n - 1}, x \in S}

\* An alert object of the JSON encoding.  *_kind tells whether the key is
\* absent ("missing"), holds a value of the expected type, or holds a value of
\* another JSON type ("num", "null").
JsonAlertsOver(rds, insts) ==
    [name_kind : {"str"}, name : Names,
     riskdesc_kind : {"str"}, riskdesc : rds,
     instances_kind : {"list"}, instances : insts]
    \cup
    [name_kind : {"missing"}, name : {""},
     riskdesc_kind : {"missing", "num"}, riskdesc : {<<>>},
     instances_kind : {"list"}, instances : insts]
    \cup
    [name_kind : {"str"}, name : Names,
     riskdesc_kind : {"str"}, riskdesc : rds,
     instances_kind : {"missing", "null"}, instances : {<<>>}]

\* An <alertitem> element of the XML encoding.  riskcode_kind: the element is
\* absent ("missing"), has text ("text") or is empty (.text is None, "none").
RunRiskCodes == {"3", "0", "4"}

RiskCodes == {"3", "2", "1", "0", "4", "High"}

XmlAlertsOver(rcs, insts) ==
    [name_kind : {"str"}, name : Names,
     riskcode_kind : {"text"}, riskcode : rcs,
     instances : insts]
    \cup
    [name_kind : {"missing"}, name : {""},
     riskcode_kind : {"missing", "none"}, riskcode : {""},
     instances : insts]

NoAlert == [name_kind |-> "none", name |-> ""]

\* alerts handed to the parser harness
JsonAlerts == JsonAlertsOver(RiskDescs, SeqsUpTo(Instances, MaxInst))

XmlAlerts == XmlAlertsOver(RiskCodes, SeqsUpTo(Instances, MaxInst))

\* alerts met inside a run
RunJsonAlerts == JsonAlertsOver(RunRiskDescs, {<<>>})

RunXmlAlerts == XmlAlertsOver(RunRiskCodes, {<<>>})

----------------------------------------------------------------------------
(* Finding Normalizer *)

\* dict.get(key, default) on a dict given as a function
DictGet(d, key, default) == IF key \in DOMAIN d THEN d[key] ELSE default

\* str.split(' ')[0]: the characters before the first space
RECURSIVE SplitFirst(_)
SplitFirst(s) ==
    IF s = <<>> \/ Head(s) = " " THEN <<>>
    ELSE <<Head(s)>> \o SplitFirst(Tail(s))

json_risk_map ==
    (cHigh :> "high") @@ (cMedium :> "medium") @@ (cLow :> "low")
    @@ (cInformational :> "informational")

\* variant: the severity codes shifted by one
xml_risk_map_shifted ==
    ("4" :> "high") @@ ("3" :> "medium") @@ ("2" :> "low") @@ ("1" :> "informational")

xml_risk_map ==
    ("3" :> "high") @@ ("2" :> "medium") @@ ("1" :> "low") @@ ("0" :> "informational")

\* _parse_zap_alert raises: .split on a non-string, len() of a non-list
ParseJsonRaises(alert) ==
    alert.riskdesc_kind = "num" \/ alert.instances_kind = "null"

JsonRisk(alert) ==
    LET risk_desc == IF alert.riskdesc_kind = "missing" THEN cUnknown ELSE alert.riskdesc
    IN  DictGet(json_risk_map, SplitFirst(risk_desc), "unknown")

JsonUrls(insts) == [i \in 1..Len(insts) |-> IF insts[i].has_uri THEN insts[i].uri ELSE ""]

parse_zap_alert(alert) ==
    LET insts == IF alert.instances_kind = "missing" THEN <<>> ELSE alert.instances
    IN  [name |-> IF alert.name_kind = "missing" THEN "Unknown Alert" ELSE alert.name,
         risk |-> JsonRisk(alert),
         instances |-> Len(insts),
         urls |-> JsonUrls(insts)]

XmlRisk(alert) ==
    IF alert.riskcode_kind = "missing" THEN DictGet(xml_risk_map, "0", "unknown")
    ELSE IF alert.riskcode_kind = "none" THEN "unknown"
    ELSE DictGet(xml_risk_map, alert.riskcode, "unknown")

XmlUrls(insts) ==
    LET kept == SelectSeq(insts, LAMBDA inst : inst.has_uri)
    IN  [i \in 1..Len(kept) |-> kept[i].uri]

parse_zap_xml_alert(alert) ==
    [name |-> IF alert.name_kind = "missing" THEN "Unknown Alert" ELSE alert.name,
     risk |-> XmlRisk(alert),
     instances |-> Len(alert.instances),
     urls |-> XmlUrls(alert.instances)]

NoFinding == [name |-> "", risk |-> "none", instances |-> 0, urls |-> <<>>]

----------------------------------------------------------------------------
(* Risk Classifier *)

Levels == {"critical", "high", "medium", "low", "informational"}

ZeroSummary == [l \in Levels |-> 0]

\* variant: a risk outside the table is counted as informational
update_risk_summary_lumped(rs, risk) ==
    IF risk \in DOMAIN rs THEN [rs EXCEPT ![risk] = @ + 1]
    ELSE [rs EXCEPT !["informational"] = @ + 1]

update_risk_summary(rs, risk) ==
    IF risk \in DOMAIN rs THEN [rs EXCEPT ![risk] = @ + 1] ELSE rs

----------------------------------------------------------------------------
(* Recommendation Engine *)

\* keys of finding_types in insertion order
RECURSIVE TypesFrom(_, _, _)
TypesFrom(fs, i, acc) ==
    IF i > Len(fs) THEN acc
    ELSE TypesFrom(fs, i + 1,
                   IF \E k \in 1..Len(acc) : acc[k] = fs[i].name
                   THEN acc ELSE Append(acc, fs[i].name))

finding_types(fs) == TypesFrom(fs, 1, <<>>)

Members(fs, finding_type) == SelectSeq(fs, LAMBDA f : f.name = finding_type)

Priority(risk) ==
    IF risk \in {"critical", "high"} THEN "HIGH"
    ELSE IF risk = "medium" THEN "MEDIUM"
    ELSE "LOW"

\* variant: risk and priority taken from the last member of the group
RecommendationFromLast(finding_type, members) ==
    [priority |-> Priority(members[Len(members)].risk),
     finding_type |-> finding_type,
     count |-> Len(members),
     risk |-> members[Len(members)].risk]

Recommendation(finding_type, members) ==
    [priority |-> Priority(members[1].risk),
     finding_type |-> finding_type,
     count |-> Len(members),
     risk |-> members[1].risk]

priority_order == ("HIGH" :> 0) @@ ("MEDIUM" :> 1) @@ ("LOW" :> 2)

risk_order ==
    ("critical" :> 0) @@ ("high" :> 1) @@ ("medium" :> 2) @@ ("low" :> 3)
    @@ ("informational" :> 4)

SortKey(x) == <<DictGet(priority_order, x.priority, 3), DictGet(risk_order, x.risk, 5)>>

\* tuple comparison a <= b
KeyLeq(a, b) == a[1] < b[1] \/ (a[1] = b[1] /\ a[2] <= b[2])

\* variant: an unstable sort, an element goes before the elements of equal key
SortInsertUnstable(sorted, x) ==
    SelectSeq(sorted, LAMBDA y : ~KeyLeq(SortKey(x), SortKey(y)))
    \o <<x>>
    \o SelectSeq(sorted, LAMBDA y : KeyLeq(SortKey(x), SortKey(y)))

\* list.sort(key=...) is stable: an element goes after every element whose key
\* is not greater than its own
SortInsert(sorted, x) ==
    SelectSeq(sorted, LAMBDA y : KeyLeq(SortKey(y), SortKey(x)))
    \o <<x>>
    \o SelectSeq(sorted, LAMBDA y : ~KeyLeq(SortKey(y), SortKey(x)))

RECURSIVE SortFrom(_, _, _)
SortFrom(s, i, acc) ==
    IF i > Len(s) THEN acc ELSE SortFrom(s, i + 1, SortInsert(acc, s[i]))

StableSort(s) == SortFrom(s, 1, <<>>)

generate_recommendations(recs, fs) ==
    LET types == finding_types(fs)
        new == [i \in 1..Len(types) |-> Recommendation(types[i], Members(fs, types[i]))]
    IN  StableSort(recs \o new)

----------------------------------------------------------------------------
(* Report Renderer *)

SumSummary(rs) ==
    rs["critical"] + rs["high"] + rs["medium"] + rs["low"] + rs["informational"]

generate_executive_summary(rs) ==
    LET total_findings == SumSummary(rs)
        critical_high == rs["critical"] + rs["high"]
    IN  IF total_findings = 0 THEN "EXCELLENT"
        ELSE IF critical_high = 0 THEN "GOOD"
        ELSE IF critical_high <= 3 THEN "ATTENTION REQUIRED"
        ELSE "IMMEDIATE ACTION REQUIRED"

reports_dir == "./security/reports"

DefaultOutput == "security-analysis-report.md"

\* os.path.join(self.reports_dir, 'security-analysis-report.md')
output_file == <<reports_dir, "security-analysis-report.md">>

----------------------------------------------------------------------------
(* The run: main -> analyze_all_reports *)

Init ==
    /\ pc = "start"
    /\ dirExists \in BOOLEAN
    /\ args_output \in {DefaultOutput, "custom-report.md"}
    /\ filesSeen = 0
    /\ findings = <<>>
    /\ risk_summary = ZeroSummary
    /\ recommendations = <<>>
    /\ docs = <<>>
    /\ fileStart = [findings |-> <<>>, risk_summary |-> ZeroSummary]
    /\ lastReturn = "none"
    /\ genCalls = 0
    /\ encoding = "none"
    /\ alertIn = NoAlert
    /\ parsed = NoFinding

\* variant: the early return is missing
AnalyzeNoDirFallsThrough ==
    /\ pc = "start"
    /\ ~dirExists
    /\ pc' = "scan"
    /\ UNCHANGED <<dirExists, args_output, filesSeen, findings, risk_summary,
                   recommendations, docs, fileStart, lastReturn, genCalls>>
    /\ UNCHANGED parseVars

\* reports directory not found: return
AnalyzeNoDir ==
    /\ pc = "start"
    /\ ~dirExists
    /\ pc' = "done"
    /\ UNCHANGED <<dirExists, args_output, filesSeen, findings, risk_summary,
                   recommendations, docs, fileStart, lastReturn, genCalls>>
    /\ UNCHANGED parseVars

AnalyzeScan ==
    /\ pc = "start"
    /\ dirExists
    /\ pc' = "scan"
    /\ UNCHANGED <<dirExists, args_output, filesSeen, findings, risk_summary,
                   recommendations, docs, fileStart, lastReturn, genCalls>>
    /\ UNCHANGED parseVars

\* a directory entry that is neither *.json nor *.xml with 'zap' in its name
SkipFile ==
    /\ pc = "scan"
    /\ filesSeen < MaxFiles
    /\ filesSeen' = filesSeen + 1
    /\ UNCHANGED <<pc, dirExists, args_output, findings, risk_summary,
                   recommendations, docs, fileStart, lastReturn, genCalls>>
    /\ UNCHANGED parseVars

\* analyze_zap_*_report: open / json.load / ET.parse raises, caught
ReportUnreadable ==
    /\ pc = "scan"
    /\ filesSeen < MaxFiles
    /\ filesSeen' = filesSeen + 1
    /\ fileStart' = [findings |-> findings, risk_summary |-> risk_summary]
    /\ lastReturn' = "failed"
    /\ UNCHANGED <<pc, dirExists, args_output, findings, risk_summary,
                   recommendations, docs, genCalls>>
    /\ UNCHANGED parseVars

\* analyze_zap_json_report: no 'site' or an empty one
JsonNoSite ==
    /\ pc = "scan"
    /\ filesSeen < MaxFiles
    /\ filesSeen' = filesSeen + 1
    /\ fileStart' = [findings |-> findings, risk_summary |-> risk_summary]
    /\ lastReturn' = "ok"
    /\ UNCHANGED <<pc, dirExists, args_output, findings, risk_summary,
                   recommendations, docs, genCalls>>
    /\ UNCHANGED parseVars

\* a report was read; its alerts are iterated next
ReportStart(kind) ==
    /\ pc = "scan"
    /\ filesSeen < MaxFiles
    /\ filesSeen' = filesSeen + 1
    /\ fileStart' = [findings |-> findings, risk_summary |-> risk_summary]
    /\ lastReturn' = "running"
    /\ pc' = kind
    /\ UNCHANGED <<dirExists, args_output, findings, risk_summary,
                   recommendations, docs, genCalls>>
    /\ UNCHANGED parseVars

JsonStart == ReportStart("json")

XmlStart == ReportStart("xml")

\* one iteration of the loop over alerts: parse, append, count
Ingest(finding) ==
    /\ findings' = Append(findings, finding)
    /\ risk_summary' = update_risk_summary(risk_summary, finding.risk)

JsonAlert ==
    /\ pc = "json"
    /\ Len(findings) < MaxFindings
    /\ \E alert \in RunJsonAlerts :
          /\ ~ParseJsonRaises(alert)
          /\ Ingest(parse_zap_alert(alert))
    /\ UNCHANGED <<pc, dirExists, args_output, filesSeen, recommendations, docs,
                   fileStart, lastReturn, genCalls>>
    /\ UNCHANGED parseVars

\* _parse_zap_alert raises inside the loop: the except clause ends the report
JsonAlertRaises ==
    /\ pc = "json"
    /\ \E alert \in RunJsonAlerts : ParseJsonRaises(alert)
    /\ pc' = "scan"
    /\ lastReturn' = "failed"
    /\ UNCHANGED <<dirExists, args_output, filesSeen, findings, risk_summary,
                   recommendations, docs, fileStart, genCalls>>
    /\ UNCHANGED parseVars

XmlAlert ==
    /\ pc = "xml"
    /\ Len(findings) < MaxFindings
    /\ \E alert \in RunXmlAlerts : Ingest(parse_zap_xml_alert(alert))
    /\ UNCHANGED <<pc, dirExists, args_output, filesSeen, recommendations, docs,
                   fileStart, lastReturn, genCalls>>
    /\ UNCHANGED parseVars

\* the loop over alerts is exhausted
ReportEnd ==
    /\ pc \in {"json", "xml"}
    /\ pc' = "scan"
    /\ lastReturn' = "ok"
    /\ UNCHANGED <<dirExists, args_output, filesSeen, findings, risk_summary,
                   recommendations, docs, fileStart, genCalls>>
    /\ UNCHANGED parseVars

\* os.listdir is exhausted
ListingDone ==
    /\ pc = "scan"
    /\ pc' = "gen"
    /\ UNCHANGED <<dirExists, args_output, filesSeen, findings, risk_summary,
                   recommendations, docs, fileStart, lastReturn, genCalls>>
    /\ UNCHANGED parseVars

GenerateRecommendations ==
    /\ pc = "gen"
    /\ recommendations' = generate_recommendations(recommendations, findings)
    /\ genCalls' = genCalls + 1
    /\ pc' = "report"
    /\ UNCHANGED <<dirExists, args_output, filesSeen, findings, risk_summary,
                   docs, fileStart, lastReturn>>
    /\ UNCHANGED parseVars

\* generate_detailed_report(output_file): open(output_file, 'w') and the writes
GenerateDetailedReport ==
    /\ pc = "report"
    /\ docs' = Append(docs, [path |-> output_file,
                             summary |-> generate_executive_summary(risk_summary),
                             findings |-> findings,
                             recommendations |-> recommendations])
    /\ pc' = "done"
    /\ UNCHANGED <<dirExists, args_output, filesSeen, findings, risk_summary,
                   recommendations, fileStart, lastReturn, genCalls>>
    /\ UNCHANGED parseVars

\* open(output_file, 'w') raises: the error leaves analyze_all_reports
ReportWriteFails ==
    /\ pc = "report"
    /\ pc' = "fatal"
    /\ UNCHANGED <<dirExists, args_output, filesSeen, findings, risk_summary,
                   recommendations, docs, fileStart, lastReturn, genCalls>>
    /\ UNCHANGED parseVars

Next ==
    \/ AnalyzeNoDir
    \/ AnalyzeScan
    \/ SkipFile
    \/ ReportUnreadable
    \/ JsonNoSite
    \/ JsonStart
    \/ XmlStart
    \/ JsonAlert
    \/ JsonAlertRaises
    \/ XmlAlert
    \/ ReportEnd
    \/ ListingDone
    \/ GenerateRecommendations
    \/ GenerateDetailedReport
    \/ ReportWriteFails

Spec == Init /\ [][Next]_vars

----------------------------------------------------------------------------
(* The run followed by further calls of generate_recommendations on the     *)
(* same analyzer, its finding list unchanged.                               *)

GenerateAgain ==
    /\ pc = "done"
    /\ genCalls >= 1
    /\ genCalls < MaxGenCalls
    /\ recommendations' = generate_recommendations(recommendations, findings)
    /\ genCalls' = genCalls + 1
    /\ UNCHANGED <<pc, dirExists, args_output, filesSeen, findings, risk_summary,
                   docs, fileStart, lastReturn>>
    /\ UNCHANGED parseVars

NextRecall == Next \/ GenerateAgain

SpecRecall == Init /\ [][NextRecall]_vars

----------------------------------------------------------------------------
(* Parser harness: one alert of either encoding is handed to its parse      *)
(* function.                                                                *)

InitParse ==
    /\ pc = "parse"
    /\ dirExists = TRUE
    /\ args_output = DefaultOutput
    /\ filesSeen = 0
    /\ findings = <<>>
    /\ risk_summary = ZeroSummary
    /\ recommendations = <<>>
    /\ docs = <<>>
    /\ fileStart = [findings |-> <<>>, risk_summary |-> ZeroSummary]
    /\ lastReturn = "none"
    /\ genCalls = 0
    /\ parsed = NoFinding
    /\ \/ encoding = "json" /\ alertIn \in JsonAlerts
       \/ encoding = "xml" /\ alertIn \in XmlAlerts

ParseJson ==
    /\ pc = "parse"
    /\ encoding = "json"
    /\ ~ParseJsonRaises(alertIn)
    /\ parsed' = parse_zap_alert(alertIn)
    /\ pc' = "parsed"
    /\ UNCHANGED <<dirExists, args_output, filesSeen, findings, risk_summary,
                   recommendations, docs, fileStart, lastReturn, genCalls>>
    /\ UNCHANGED <<encoding, alertIn>>

ParseJsonRaise ==
    /\ pc = "parse"
    /\ encoding = "json"
    /\ ParseJsonRaises(alertIn)
    /\ pc' = "raised"
    /\ UNCHANGED <<dirExists, args_output, filesSeen, findings, risk_summary,
                   recommendations, docs, fileStart, lastReturn, genCalls>>
    /\ UNCHANGED parseVars

ParseXml ==
    /\ pc = "parse"
    /\ encoding = "xml"
    /\ parsed' = parse_zap_xml_alert(alertIn)
    /\ pc' = "parsed"
    /\ UNCHANGED <<dirExists, args_output, filesSeen, findings, risk_summary,
                   recommendations, docs, fileStart, lastReturn, genCalls>>
    /\ UNCHANGED <<encoding, alertIn>>

NextParse == ParseJson \/ ParseJsonRaise \/ ParseXml

SpecParse == InitParse /\ [][NextParse]_vars

----------------------------------------------------------------------------
(* Properties *)

CountRisk(fs, risks) == Cardinality({i \in 1..Len(fs) : fs[i].risk \in risks})

CountName(fs, name) == Cardinality({i \in 1..Len(fs) : fs[i].name = name})

FirstSeen(fs, name) ==
    CHOOSE i \in 1..Len(fs) :
        fs[i].name = name /\ \A k \in 1..(i - 1) : fs[k].name # name

Generated == dirExists /\ genCalls >= 1

\* C1: calling generate_recommendations again with the finding list unchanged
\* leaves the recommendation list identical to the one after the first call.
C1_Idempotent ==
    [][(genCalls >= 1 /\ genCalls' = genCalls + 1 /\ findings' = findings)
        => recommendations' = recommendations]_vars

\* C2: a report whose analysis failed contributes nothing: the finding list and
\* the risk summary are what they were when the report was started.
C2_FailedReportContributesNothing ==
    lastReturn = "failed" =>
        /\ findings = fileStart.findings
        /\ risk_summary = fileStart.risk_summary

\* C3: the executive summary follows the threshold ladder over the findings:
\* "no vulnerabilities" exactly when the finding list is empty, then by the
\* number of critical and high findings (0, 1 to 3, 4 or more).
C3_SummaryLadder ==
    \A i \in 1..Len(docs) :
        LET fs == docs[i].findings
            critical_high == CountRisk(fs, {"critical", "high"})
        IN  docs[i].summary =
                IF fs = <<>> THEN "EXCELLENT"
                ELSE IF critical_high = 0 THEN "GOOD"
                ELSE IF critical_high <= 3 THEN "ATTENTION REQUIRED"
                ELSE "IMMEDIATE ACTION REQUIRED"

\* C4: when the output filename option is supplied, the document is written to
\* the path the option names (taken as it is, or inside the reports directory).
C4_OutputOptionHonoured ==
    \A i \in 1..Len(docs) :
        args_output # DefaultOutput =>
            docs[i].path \in {<<args_output>>, <<reports_dir, args_output>>}

C6_SummaryMatchesFindings ==
    /\ [](/\ \A l \in Levels : risk_summary[l] = CountRisk(findings, {l})
          /\ SumSummary(risk_summary) = CountRisk(findings, Levels))
    /\ [][\A l \in Levels : risk_summary'[l] >= risk_summary[l]]_vars

C6_Witness ==
    /\ lastReturn = "failed"
    /\ Len(findings) > Len(fileStart.findings)
    /\ CountRisk(findings, {"unknown"}) >= 1
    /\ CountRisk(findings, Levels) >= 1

\* the text before the first space of a string
TokenBeforeSpace(s) ==
    LET k == CHOOSE k \in 1..(Len(s) + 1) :
                 /\ k = Len(s) + 1 \/ s[k] = " "
                 /\ \A j \in 1..(k - 1) : s[j] # " "
    IN  SubSeq(s, 1, k - 1)

ClaimedJsonRisk(alert) ==
    LET token == TokenBeforeSpace(alert.riskdesc)
    IN  IF alert.riskdesc_kind # "str" THEN "unknown"
        ELSE IF token = cHigh THEN "high"
        ELSE IF token = cMedium THEN "medium"
        ELSE IF token = cLow THEN "low"
        ELSE IF token = cInformational THEN "informational"
        ELSE "unknown"

ClaimedXmlRisk(alert) ==
    IF alert.riskcode_kind # "text" THEN "unknown"
    ELSE IF alert.riskcode = "3" THEN "high"
    ELSE IF alert.riskcode = "2" THEN "medium"
    ELSE IF alert.riskcode = "1" THEN "low"
    ELSE IF alert.riskcode = "0" THEN "informational"
    ELSE "unknown"

C8_OneEntryPerType ==
    Generated =>
        /\ \A i, j \in 1..Len(recommendations) :
              i # j => recommendations[i].finding_type # recommendations[j].finding_type
        /\ \A k \in 1..Len(findings) :
              \E i \in 1..Len(recommendations) :
                  recommendations[i].finding_type = findings[k].name
        /\ \A i \in 1..Len(recommendations) :
              LET r == recommendations[i]
                  n == CountName(findings, r.finding_type)
              IN  /\ n >= 1
                  /\ r.count = n
                  /\ r.risk = findings[FirstSeen(findings, r.finding_type)].risk
                  /\ r.risk \in {"critical", "high"} => r.priority = "HIGH"
                  /\ r.risk = "medium" => r.priority = "MEDIUM"
                  /\ r.risk \notin {"critical", "high", "medium"} => r.priority = "LOW"

C8_Witness ==
    /\ Generated
    /\ Len(recommendations) >= 2
    /\ \E i \in 1..Len(recommendations) :
          /\ recommendations[i].count >= 2
          /\ \E k \in 1..Len(findings) :
                /\ findings[k].name = recommendations[i].finding_type
                /\ findings[k].risk # recommendations[i].risk

TierRank(priority) ==
    CASE priority = "HIGH" -> 0
      [] priority = "MEDIUM" -> 1
      [] priority = "LOW" -> 2

RiskRank(risk) ==
    CASE risk = "critical" -> 0
      [] risk = "high" -> 1
      [] risk = "medium" -> 2
      [] risk = "low" -> 3
      [] risk = "informational" -> 4
      [] risk = "unknown" -> 5

\* C9: the recommendation list is ordered HIGH, MEDIUM, LOW; inside a tier by
\* risk critical, high, medium, low, informational, unknown; and entries of
\* equal (priority, risk) keep the order in which their types were first seen.
C9_TwoKeyStableOrder ==
    Generated =>
        \A i, j \in 1..Len(recommendations) :
            i < j =>
                LET a == recommendations[i]
                    b == recommendations[j]
                IN  /\ TierRank(a.priority) <= TierRank(b.priority)
                    /\ a.priority = b.priority => RiskRank(a.risk) <= RiskRank(b.risk)
                    /\ (a.priority = b.priority /\ a.risk = b.risk) =>
                          FirstSeen(findings, a.finding_type)
                              < FirstSeen(findings, b.finding_type)

C9_Witness ==
    /\ Generated
    /\ Len(recommendations) = 3
    /\ recommendations[1].priority = "HIGH"
    /\ recommendations[2].priority = "LOW"
    /\ recommendations[2].risk = recommendations[3].risk
    /\ FirstSeen(findings, recommendations[1].finding_type) = 3

\* C10: a finding's instance_count equals the length of its location list,
\* which equals the number of instance entries of the alert.
C10_InstanceCountIsLocationCount ==
    pc = "parsed" =>
        LET reported ==
                IF encoding = "json" /\ alertIn.instances_kind = "missing" THEN 0
                ELSE Len(alertIn.instances)
        IN  /\ parsed.instances = reported
            /\ Len(parsed.urls) = reported

====
